---------------------------- MODULE Spec2Model ----------------------------
(***************************************************************************)
(* array-lit: the macros arr! and vec! (src/src/lib.rs).                   *)
(*                                                                         *)
(* A literal is a sequence of tokens.  Each macro tries its arms in the    *)
(* written order on the tokens; the first arm whose pattern matches is     *)
(* transcribed into a list of statements (the expansion), and the          *)
(* statements are then executed one at a time on a container.  A literal   *)
(* that no arm matches is rejected at expansion time.                      *)
(*                                                                         *)
(* The same literal is handed to both macros; each macro has its own       *)
(* expansion, its own container and its own position in its expansion.     *)
(* The two calls share no state, so the order in which their steps are     *)
(* taken changes nothing either of them reaches; the arr! call is taken    *)
(* first and the vec! call after it has ended.                             *)
(*                                                                         *)
(* src/src/tests.rs calls a form  lit[d; N; { i: v, [s]: [v0, v1], .. }]   *)
(* that no arm of src/src/lib.rs matches.  That arm is modelled from the   *)
(* specification (PatBlock, block_body, block_expand, ExecRunLoop) and     *)
(* checked under SpecBlock; Spec is src/src/lib.rs alone.                  *)
(***************************************************************************)
EXTENDS Integers, Sequences, FiniteSets

\* ------------------------------------------------------------------ bounds

\* Largest target length written in a literal.
MaxLen == 2
\* Largest number of positional elements written in a literal.
MaxItems == 2
\* Largest number of index-keyed overrides written in a literal.
MaxSparse == 2

\* Largest number of entries in an override block.
MaxBlock == 1
\* Largest number of values in a run-style override.
MaxRun == 2

\* The element values.  The macros never inspect an element, so two values
\* are enough to tell any two writes to one index apart.
Val == {0, 1}

Macro == {"arr", "vec"}

\* ------------------------------------------------------------------ tokens

Lit(v) == [k |-> "lit", v |-> v]
Punct(s) == [k |-> s, v |-> 0]

RECURSIVE CommaList(_)
\* a, b, c
CommaList(xs) ==
    IF xs = <<>> THEN <<>>
    ELSE IF Len(xs) = 1 THEN <<Lit(xs[1])>>
    ELSE <<Lit(xs[1]), Punct(",")>> \o CommaList(Tail(xs))

RECURSIVE TrailingList(_)
\* a, b, c,
TrailingList(xs) ==
    IF xs = <<>> THEN <<>>
    ELSE <<Lit(xs[1]), Punct(",")>> \o TrailingList(Tail(xs))

RECURSIVE SparseList(_)
\* , i: v, j: w
SparseList(sp) ==
    IF sp = <<>> THEN <<>>
    ELSE <<Punct(","), Lit(sp[1][1]), Punct(":"), Lit(sp[1][2])>>
         \o SparseList(Tail(sp))

Ident(id) == [k |-> "ident", v |-> id]

\* i: v   or   [s]: [v0, v1]   or   [s]: a   (a: a runtime array or slice,
\* named by the entry's place in the block)
EntryTokens(e, id) ==
    CASE e.kind = "single" -> <<Lit(e.idx), Punct(":"), Lit(e.val)>>
      [] e.kind = "run" ->
           <<Punct("["), Lit(e.idx), Punct("]"), Punct(":"), Punct("[")>>
           \o CommaList(e.run) \o <<Punct("]")>>
      [] e.kind = "run_rt" ->
           <<Punct("["), Lit(e.idx), Punct("]"), Punct(":"), Ident(id)>>

RECURSIVE EntryList(_, _)
\* the entries of an override block from entry id on, comma-separated
EntryList(over, id) ==
    IF id > Len(over) THEN <<>>
    ELSE EntryTokens(over[id], id)
         \o (IF id < Len(over) THEN <<Punct(",")>> ELSE <<>>)
         \o EntryList(over, id + 1)

\* The tokens of a literal, from what its author wrote: the form, the
\* positional elements, the default, the overrides and the length.
Tokens(s) ==
    CASE s.form = "default" ->
           <<Punct("default"), Punct(":"), Lit(s.def)>> \o SparseList(s.sparse)
           \o <<Punct(";"), Lit(s.len)>>
      [] s.form = "positional" ->
           CommaList(s.items)
           \o <<Punct(";"), Punct("default"), Punct(":"), Lit(s.def)>>
           \o SparseList(s.sparse) \o <<Punct(";"), Lit(s.len)>>
      [] s.form = "repeat" ->
           <<Lit(s.def), Punct(";"), Lit(s.len)>>
      [] s.form = "list" -> CommaList(s.items)
      [] s.form = "list_trailing" -> TrailingList(s.items)
      [] s.form = "nodefault" ->
           CommaList(s.items)
           \o (IF s.sparse = <<>> THEN <<>>
               ELSE <<Punct(";")>> \o Tail(SparseList(s.sparse)))
           \o <<Punct(";"), Lit(s.len)>>
      [] s.form = "block" ->
           <<Lit(s.def), Punct(";"), Lit(s.len), Punct(";"), Punct("{")>>
           \o EntryList(s.over, 1) \o <<Punct("}")>>

\* ---------------------------------------------------------------- patterns

IsKind(toks, p, k) == p <= Len(toks) /\ toks[p].k = k
IsExpr(toks, p) == IsKind(toks, p, "lit")
IsTT(toks, p) == p <= Len(toks)

RECURSIVE MoreItems(_, _)
MoreItems(toks, p) ==
    IF IsKind(toks, p, ",") /\ IsExpr(toks, p + 1)
    THEN LET r == MoreItems(toks, p + 2)
         IN [items |-> <<toks[p + 1].v>> \o r.items, next |-> r.next]
    ELSE [items |-> <<>>, next |-> p]

\* $( $item:expr ),*  from position p
ItemsFrom(toks, p) ==
    IF IsExpr(toks, p)
    THEN LET r == MoreItems(toks, p + 1)
         IN [items |-> <<toks[p].v>> \o r.items, next |-> r.next]
    ELSE [items |-> <<>>, next |-> p]

RECURSIVE TrailingFrom(_, _)
\* $( $item:expr, )*  from position p
TrailingFrom(toks, p) ==
    IF IsExpr(toks, p) /\ IsKind(toks, p + 1, ",")
    THEN LET r == TrailingFrom(toks, p + 2)
         IN [items |-> <<toks[p].v>> \o r.items, next |-> r.next]
    ELSE [items |-> <<>>, next |-> p]

RECURSIVE SparseFrom(_, _)
\* $(, $idx:tt : $sparse:expr )*  from position p
SparseFrom(toks, p) ==
    IF /\ IsKind(toks, p, ",")
       /\ IsTT(toks, p + 1)
       /\ IsKind(toks, p + 2, ":")
       /\ IsExpr(toks, p + 3)
    THEN LET r == SparseFrom(toks, p + 4)
         IN [sparse |-> <<<<toks[p + 1].v, toks[p + 3].v>>>> \o r.sparse,
             next |-> r.next]
    ELSE [sparse |-> <<>>, next |-> p]

NoMatch == [ok |-> FALSE, item |-> <<>>, def |-> 0, sparse |-> <<>>, len |-> 0]

\* default: $def:expr $(, $idx:tt : $sparse:expr )* ; $len:expr   from p
DefaultClauseFrom(toks, p, item) ==
    IF IsKind(toks, p, "default") /\ IsKind(toks, p + 1, ":") /\ IsExpr(toks, p + 2)
    THEN LET s == SparseFrom(toks, p + 3)
         IN IF /\ IsKind(toks, s.next, ";")
               /\ IsExpr(toks, s.next + 1)
               /\ Len(toks) = s.next + 1
            THEN [ok |-> TRUE, item |-> item, def |-> toks[p + 2].v,
                  sparse |-> s.sparse, len |-> toks[s.next + 1].v]
            ELSE NoMatch
    ELSE NoMatch

\* [default: $def:expr $(, $idx:tt : $sparse:expr )* ; $len:expr]
PatDefault(toks) == DefaultClauseFrom(toks, 1, <<>>)

\* [$( $item:expr ),* ; default: ... ; $len:expr] with `default:` optional
PatPositionalOptionalDefault(toks) ==
    LET r == ItemsFrom(toks, 1)
    IN IF ~IsKind(toks, r.next, ";") THEN NoMatch
       ELSE IF IsKind(toks, r.next + 1, "default")
            THEN DefaultClauseFrom(toks, r.next + 1, r.items)
            ELSE IF IsExpr(toks, r.next + 1) /\ Len(toks) = r.next + 1
                 THEN [ok |-> TRUE, item |-> r.items, def |-> 0,
                       sparse |-> <<>>, len |-> toks[r.next + 1].v]
                 ELSE NoMatch

\* [$( $item:expr ),* ; default: $def:expr $(, $idx:tt : $sparse:expr )* ; $len:expr]
PatPositional(toks) ==
    LET r == ItemsFrom(toks, 1)
    IN IF IsKind(toks, r.next, ";")
       THEN DefaultClauseFrom(toks, r.next + 1, r.items)
       ELSE NoMatch

\* [$item:expr ; $len:expr]
PatRepeat(toks) ==
    IF Len(toks) = 3 /\ IsExpr(toks, 1) /\ IsKind(toks, 2, ";") /\ IsExpr(toks, 3)
    THEN [ok |-> TRUE, item |-> <<>>, def |-> toks[1].v, sparse |-> <<>>,
          len |-> toks[3].v]
    ELSE NoMatch

\* [$( $item:expr ),*]
PatList(toks) ==
    LET r == ItemsFrom(toks, 1)
    IN IF r.next = Len(toks) + 1
       THEN [ok |-> TRUE, item |-> r.items, def |-> 0, sparse |-> <<>>, len |-> 0]
       ELSE NoMatch

\* [$( $item:expr, )*]
PatListTrailing(toks) ==
    LET r == TrailingFrom(toks, 1)
    IN IF r.next = Len(toks) + 1
       THEN [ok |-> TRUE, item |-> r.items, def |-> 0, sparse |-> <<>>, len |-> 0]
       ELSE NoMatch

NoEntry == [ok |-> FALSE, stmts |-> <<>>, next |-> 0]

\* arr[$idx] = $sparse;
Store(idx, v) == [op |-> "sparse", x |-> idx, y |-> v, xs |-> <<>>]
\* the element-by-element copy of the runtime run `id`, starting at index s
RunLoop(s, id) == [op |-> "run_loop", x |-> s, y |-> id, xs |-> <<>>]

\* One entry of an override block at position p, with the statements it
\* is transcribed to: a single index is one assignment, a run whose values
\* are written out is unrolled into one assignment per value, a run taken
\* from a runtime value is a loop over it.
EntryAt(toks, p) ==
    IF IsExpr(toks, p) /\ IsKind(toks, p + 1, ":") /\ IsExpr(toks, p + 2)
    THEN [ok |-> TRUE, stmts |-> <<Store(toks[p].v, toks[p + 2].v)>>,
          next |-> p + 3]
    ELSE IF /\ IsKind(toks, p, "[") /\ IsExpr(toks, p + 1)
            /\ IsKind(toks, p + 2, "]") /\ IsKind(toks, p + 3, ":")
         THEN IF IsKind(toks, p + 4, "ident")
              THEN [ok |-> TRUE,
                    stmts |-> <<RunLoop(toks[p + 1].v, toks[p + 4].v)>>,
                    next |-> p + 5]
              ELSE IF IsKind(toks, p + 4, "[")
                   THEN LET r == ItemsFrom(toks, p + 5)
                        IN IF IsKind(toks, r.next, "]")
                           THEN [ok |-> TRUE,
                                 stmts |-> [j \in 1..Len(r.items) |->
                                     Store(toks[p + 1].v + j - 1, r.items[j])],
                                 next |-> r.next + 1]
                           ELSE NoEntry
                   ELSE NoEntry
         ELSE NoEntry

RECURSIVE EntriesFrom(_, _)
\* $( entry ),*  from position p, up to the closing brace
EntriesFrom(toks, p) ==
    LET e == EntryAt(toks, p)
    IN IF ~e.ok THEN [stmts |-> <<>>, next |-> p]
       ELSE IF IsKind(toks, e.next, ",")
            THEN LET r == EntriesFrom(toks, e.next + 1)
                 IN [stmts |-> e.stmts \o r.stmts, next |-> r.next]
            ELSE [stmts |-> e.stmts, next |-> e.next]

NoBlock == [ok |-> FALSE, def |-> 0, len |-> 0, stmts |-> <<>>]

\* [$def:expr ; $len:expr ; { entries }]
PatBlock(toks) ==
    IF /\ IsExpr(toks, 1) /\ IsKind(toks, 2, ";") /\ IsExpr(toks, 3)
       /\ IsKind(toks, 4, ";") /\ IsKind(toks, 5, "{")
    THEN LET r == EntriesFrom(toks, 6)
         IN IF IsKind(toks, r.next, "}") /\ Len(toks) = r.next
            THEN [ok |-> TRUE, def |-> toks[1].v, len |-> toks[3].v,
                  stmts |-> r.stmts]
            ELSE NoBlock
    ELSE NoBlock

\* -------------------------------------------------------------- expansions

\* A statement of an expansion.
Stmt(op, x, y, xs) == [op |-> op, x |-> x, y |-> y, xs |-> xs]

\* let mut arr = [$def ; $len];
LetRepeat(def, len) == Stmt("let_repeat", def, len, <<>>)
\* let mut i = 0;
LetI(n) == Stmt("let_i", n, 0, <<>>)
\* arr
Yield == Stmt("yield", 0, 0, <<>>)

\* $( arr[i] = $item; i += 1; )*
ItemStmts(item) == [j \in 1..Len(item) |-> Stmt("item", item[j], 0, <<>>)]
\* $( arr[$idx] = $sparse; )*
SparseStmts(sparse) ==
    [j \in 1..Len(sparse) |-> Stmt("sparse", sparse[j][1], sparse[j][2], <<>>)]

Reverse(s) == [j \in 1..Len(s) |-> s[Len(s) + 1 - j]]

Expansion(arm, code) == [ok |-> TRUE, arm |-> arm, code |-> code]
NoExpansion == [ok |-> FALSE, arm |-> 0, code |-> <<>>]

\* arm 1 with the operands of the repeat expression swapped
arr_body1_swapped(b) ==
    <<LetRepeat(b.len, b.def)>> \o SparseStmts(b.sparse) \o <<Yield>>

\* arm 1 with the overrides emitted last-written first
arr_body1_reversed(b) ==
    <<LetRepeat(b.def, b.len)>> \o Reverse(SparseStmts(b.sparse)) \o <<Yield>>

arr_body1(b) ==
    <<LetRepeat(b.def, b.len)>> \o SparseStmts(b.sparse) \o <<Yield>>

\* arm 2 with the index-keyed assignments emitted before the positional ones
arr_body2_sparse_first(b) ==
    <<LetRepeat(b.def, b.len), LetI(0)>>
    \o SparseStmts(b.sparse) \o ItemStmts(b.item) \o <<Yield>>

\* arm 2 with the position counter starting at 1
arr_body2_from_one(b) ==
    <<LetRepeat(b.def, b.len), LetI(1)>>
    \o ItemStmts(b.item) \o SparseStmts(b.sparse) \o <<Yield>>

arr_body2(b) ==
    <<LetRepeat(b.def, b.len), LetI(0)>>
    \o ItemStmts(b.item) \o SparseStmts(b.sparse) \o <<Yield>>

\* arm 3 with the operands of the repeat expression swapped
arr_body3_swapped(b) == <<Stmt("expr_repeat", b.len, b.def, <<>>)>>

arr_body3(b) == <<Stmt("expr_repeat", b.def, b.len, <<>>)>>

\* arm 4 written as a default fill with the first element, then assignments
arr_body4_filled(b) ==
    IF b.item = <<>> THEN <<Stmt("expr_list", 0, 0, <<>>)>>
    ELSE <<LetRepeat(b.item[1], Len(b.item)), LetI(0)>>
         \o ItemStmts(b.item) \o <<Yield>>

arr_body4(b) == <<Stmt("expr_list", 0, 0, b.item)>>

arr_body5(b) == <<Stmt("expr_list", 0, 0, b.item)>>

\* The arms of arr!, tried in the written order.
arr_expand(toks) ==
    IF PatDefault(toks).ok THEN Expansion(1, arr_body1(PatDefault(toks)))
    ELSE IF PatPositional(toks).ok
         THEN Expansion(2, arr_body2(PatPositional(toks)))
    ELSE IF PatRepeat(toks).ok THEN Expansion(3, arr_body3(PatRepeat(toks)))
    ELSE IF PatList(toks).ok THEN Expansion(4, arr_body4(PatList(toks)))
    ELSE IF PatListTrailing(toks).ok
         THEN Expansion(5, arr_body5(PatListTrailing(toks)))
    ELSE NoExpansion

vec_body1(b) ==
    <<LetRepeat(b.def, b.len)>> \o SparseStmts(b.sparse) \o <<Yield>>

\* arm 2 of vec! with the index-keyed assignments emitted first
vec_body2_sparse_first(b) ==
    <<LetRepeat(b.def, b.len), LetI(0)>>
    \o SparseStmts(b.sparse) \o ItemStmts(b.item) \o <<Yield>>

vec_body2(b) ==
    <<LetRepeat(b.def, b.len), LetI(0)>>
    \o ItemStmts(b.item) \o SparseStmts(b.sparse) \o <<Yield>>

vec_body3(b) == <<Stmt("expr_repeat", b.def, b.len, <<>>)>>

vec_body4(b) == <<Stmt("expr_list", 0, 0, b.item)>>

vec_body5(b) == <<Stmt("expr_list", 0, 0, b.item)>>

\* The arms of vec!, tried in the written order.
vec_expand(toks) ==
    IF PatDefault(toks).ok THEN Expansion(1, vec_body1(PatDefault(toks)))
    ELSE IF PatPositional(toks).ok
         THEN Expansion(2, vec_body2(PatPositional(toks)))
    ELSE IF PatRepeat(toks).ok THEN Expansion(3, vec_body3(PatRepeat(toks)))
    ELSE IF PatList(toks).ok THEN Expansion(4, vec_body4(PatList(toks)))
    ELSE IF PatListTrailing(toks).ok
         THEN Expansion(5, vec_body5(PatListTrailing(toks)))
    ELSE NoExpansion

\* the block arm with an assignment of the default at index 0 for a block
\* that transcribes to no statement
block_body_touch_empty(b) ==
    <<LetRepeat(b.def, b.len)>>
    \o (IF b.stmts = <<>> THEN <<Store(0, b.def)>> ELSE b.stmts) \o <<Yield>>

\* The block arm: the default fill, then the entries' statements in the
\* written order.
block_body(b) ==
    <<LetRepeat(b.def, b.len)>> \o b.stmts \o <<Yield>>

\* The expander with the block arm (either macro).
block_expand(toks) ==
    IF PatBlock(toks).ok THEN Expansion(6, block_body(PatBlock(toks)))
    ELSE NoExpansion

\* ------------------------------------------------------------------- state

VARIABLES
    shape,   \* what the author of the literal wrote
    pc,      \* per macro: expand, run, done, rejected, panicked, lint_error
    arm,     \* per macro: the arm that matched (0: none)
    code,    \* per macro: the statements of the expansion
    ip,      \* per macro: the next statement to execute
    cont,    \* per macro: the container (array or Vec), a sequence
    i        \* per macro: the position counter `i` of arm 2

vars == <<shape, pc, arm, code, ip, cont, i>>

\* The tokens handed to both macros.
input == Tokens(shape)

SeqsUpTo(S, n) == UNION {[1..k -> S] : k \in 0..n}

\* Index keys written in a literal of length n: every index in range, and
\* the first one out of range.
Keys(n) == 0..n

Shape(f, its, d, sp, n, ov) ==
    [form |-> f, items |-> its, def |-> d, sparse |-> sp, len |-> n, over |-> ov]

\* The overrides written in a literal of length n.
SparseSeqs(n) == SeqsUpTo(Keys(n) \X Val, MaxSparse)

\* The literals of src/src/lib.rs: the five forms its arms accept, and the
\* forms that leave the default out (positional elements, then overrides if
\* any, then the length; the length may be one more than MaxLen, so that
\* MaxItems elements can fall short of it).
IsShape(s) ==
    \/ \E d \in Val, n \in 0..MaxLen : \E sp \in SparseSeqs(n) :
          s = Shape("default", <<>>, d, sp, n, <<>>)
    \/ \E its \in SeqsUpTo(Val, MaxItems), d \in Val, n \in 0..MaxLen :
          \E sp \in SparseSeqs(n) :
             s = Shape("positional", its, d, sp, n, <<>>)
    \/ \E its \in SeqsUpTo(Val, MaxItems), n \in 0..(MaxLen + 1) :
          \E sp \in SparseSeqs(n) :
             s = Shape("nodefault", its, 0, sp, n, <<>>)
    \/ \E d \in Val, n \in 0..MaxLen :
          s = Shape("repeat", <<>>, d, <<>>, n, <<>>)
    \/ \E f \in {"list", "list_trailing"}, its \in SeqsUpTo(Val, MaxItems) :
          s = Shape(f, its, 0, <<>>, 0, <<>>)

\* The entries of an override block of a literal of length n.  A run starts
\* at a key and ends at most one past the last index.
Entries(n) ==
    {[kind |-> "single", idx |-> x, val |-> v, run |-> <<>>] :
        x \in Keys(n), v \in Val}
    \cup
    {e \in {[kind |-> kd, idx |-> x, val |-> 0, run |-> r] :
               kd \in {"run", "run_rt"}, x \in Keys(n), r \in SeqsUpTo(Val, MaxRun)} :
        e.idx + Len(e.run) <= n + 1}

\* The literals of the override block form (lengths up to MaxLen + 1, so
\* that a run of MaxRun values leaves positions on both sides).
IsBlockShape(s) ==
    \E d \in Val, n \in 0..(MaxLen + 1) : \E ov \in SeqsUpTo(Entries(n), MaxBlock) :
        s = Shape("block", <<>>, d, <<>>, n, ov)

Start ==
    /\ pc = [m \in Macro |-> "expand"]
    /\ arm = [m \in Macro |-> 0]
    /\ code = [m \in Macro |-> <<>>]
    /\ ip = [m \in Macro |-> 1]
    /\ cont = [m \in Macro |-> <<>>]
    /\ i = [m \in Macro |-> 0]

Init ==
    /\ IsShape(shape)
    /\ Start

InitBlock ==
    /\ IsBlockShape(shape)
    /\ Start

\* ----------------------------------------------------------------- actions

\* [x; n]: n copies of x
Repeat(x, n) == [j \in 1..n |-> x]

\* What an out-of-bounds indexed assignment ends in.  A Vec panics when the
\* assignment executes.  For an array of constant length the compiler may
\* instead refuse the expanded code (its deny-by-default lint on an
\* assignment that always panics), depending on the build.
IndexFailure(m) == IF m = "arr" THEN {"panicked", "lint_error"} ELSE {"panicked"}

Running(m, op) ==
    /\ pc[m] = "run"
    /\ ip[m] <= Len(code[m])
    /\ code[m][ip[m]].op = op

Cur(m) == code[m][ip[m]]

\* The macro call is expanded: the first matching arm is transcribed.
Expand(m) ==
    /\ pc[m] = "expand"
    /\ LET e == IF m = "arr" THEN arr_expand(input) ELSE vec_expand(input)
       IN /\ pc' = [pc EXCEPT ![m] = IF e.ok THEN "run" ELSE "rejected"]
          /\ arm' = [arm EXCEPT ![m] = e.arm]
          /\ code' = [code EXCEPT ![m] = e.code]
    /\ UNCHANGED <<shape, ip, cont, i>>

\* let mut arr = [$def ; $len];
ExecLetRepeat(m) ==
    /\ Running(m, "let_repeat")
    /\ cont' = [cont EXCEPT ![m] = Repeat(Cur(m).x, Cur(m).y)]
    /\ ip' = [ip EXCEPT ![m] = @ + 1]
    /\ UNCHANGED <<shape, pc, arm, code, i>>

\* let mut i = 0;
ExecLetI(m) ==
    /\ Running(m, "let_i")
    /\ i' = [i EXCEPT ![m] = Cur(m).x]
    /\ ip' = [ip EXCEPT ![m] = @ + 1]
    /\ UNCHANGED <<shape, pc, arm, code, cont>>

\* arr[i] = $item; i += 1;
ExecItem(m) ==
    /\ Running(m, "item")
    /\ i[m] < Len(cont[m])
    /\ cont' = [cont EXCEPT ![m][i[m] + 1] = Cur(m).x]
    /\ i' = [i EXCEPT ![m] = @ + 1]
    /\ ip' = [ip EXCEPT ![m] = @ + 1]
    /\ UNCHANGED <<shape, pc, arm, code>>

\* arr[i] = $item; with i out of bounds
ItemOutOfBounds(m) ==
    /\ Running(m, "item")
    /\ i[m] >= Len(cont[m])
    /\ \E f \in IndexFailure(m) : pc' = [pc EXCEPT ![m] = f]
    /\ UNCHANGED <<shape, arm, code, ip, cont, i>>

\* arr[$idx] = $sparse;
ExecSparse(m) ==
    /\ Running(m, "sparse")
    /\ Cur(m).x < Len(cont[m])
    /\ cont' = [cont EXCEPT ![m][Cur(m).x + 1] = Cur(m).y]
    /\ ip' = [ip EXCEPT ![m] = @ + 1]
    /\ UNCHANGED <<shape, pc, arm, code, i>>

\* arr[$idx] = $sparse; with $idx out of bounds
SparseOutOfBounds(m) ==
    /\ Running(m, "sparse")
    /\ Cur(m).x >= Len(cont[m])
    /\ \E f \in IndexFailure(m) : pc' = [pc EXCEPT ![m] = f]
    /\ UNCHANGED <<shape, arm, code, ip, cont, i>>

\* arr  (the value of the block)
ExecYield(m) ==
    /\ Running(m, "yield")
    /\ pc' = [pc EXCEPT ![m] = "done"]
    /\ UNCHANGED <<shape, arm, code, ip, cont, i>>

\* [$item ; $len]
ExecExprRepeat(m) ==
    /\ Running(m, "expr_repeat")
    /\ cont' = [cont EXCEPT ![m] = Repeat(Cur(m).x, Cur(m).y)]
    /\ pc' = [pc EXCEPT ![m] = "done"]
    /\ UNCHANGED <<shape, arm, code, ip, i>>

\* [ $($item),* ]
ExecExprList(m) ==
    /\ Running(m, "expr_list")
    /\ cont' = [cont EXCEPT ![m] = Cur(m).xs]
    /\ pc' = [pc EXCEPT ![m] = "done"]
    /\ UNCHANGED <<shape, arm, code, ip, i>>

Step(m) ==
    \/ Expand(m)
    \/ ExecLetRepeat(m)
    \/ ExecLetI(m)
    \/ ExecItem(m)
    \/ ItemOutOfBounds(m)
    \/ ExecSparse(m)
    \/ SparseOutOfBounds(m)
    \/ ExecYield(m)
    \/ ExecExprRepeat(m)
    \/ ExecExprList(m)

\* The call of macro m has ended: in a value, in a rejection or in a failure.
Ended(m) == pc[m] \in {"done", "rejected", "panicked", "lint_error"}

Next ==
    \/ Step("arr")
    \/ Ended("arr") /\ Step("vec")

Spec == Init /\ [][Next]_vars

\* ------------------------------------------------- the override block form

\* The runtime array or slice an identifier of the literal is bound to.
Env(id) == shape.over[id].run

\* The macro call is expanded by the expander that has the block arm.
ExpandBlock(m) ==
    /\ pc[m] = "expand"
    /\ LET e == block_expand(input)
       IN /\ pc' = [pc EXCEPT ![m] = IF e.ok THEN "run" ELSE "rejected"]
          /\ arm' = [arm EXCEPT ![m] = e.arm]
          /\ code' = [code EXCEPT ![m] = e.code]
    /\ UNCHANGED <<shape, ip, cont, i>>

\* the run copied with its first value at index s + 1
CopyRunOffByOne(c, s, run) ==
    [x \in 1..Len(c) |->
        IF s + 1 < x /\ x <= s + 1 + Len(run) THEN run[x - s - 1] ELSE c[x]]

\* the run copied element by element with its first value at index s
CopyRun(c, s, run) ==
    [x \in 1..Len(c) |->
        IF s < x /\ x <= s + Len(run) THEN run[x - s] ELSE c[x]]

\* The loop over a runtime run: index s + j is assigned the run's j-th value.
ExecRunLoop(m) ==
    /\ Running(m, "run_loop")
    /\ Cur(m).x + Len(Env(Cur(m).y)) <= Len(cont[m])
    /\ cont' = [cont EXCEPT ![m] = CopyRun(@, Cur(m).x, Env(Cur(m).y))]
    /\ ip' = [ip EXCEPT ![m] = @ + 1]
    /\ UNCHANGED <<shape, pc, arm, code, i>>

\* The loop over a runtime run that reaches past the container: the
\* assignment that is out of bounds panics, and the container is dropped.
RunLoopOutOfBounds(m) ==
    /\ Running(m, "run_loop")
    /\ Cur(m).x + Len(Env(Cur(m).y)) > Len(cont[m])
    /\ pc' = [pc EXCEPT ![m] = "panicked"]
    /\ UNCHANGED <<shape, arm, code, ip, cont, i>>

StepBlock(m) ==
    \/ ExpandBlock(m)
    \/ ExecLetRepeat(m)
    \/ ExecSparse(m)
    \/ SparseOutOfBounds(m)
    \/ ExecRunLoop(m)
    \/ RunLoopOutOfBounds(m)
    \/ ExecYield(m)

NextBlock ==
    \/ StepBlock("arr")
    \/ Ended("arr") /\ StepBlock("vec")

SpecBlock == InitBlock /\ [][NextBlock]_vars

\* ------------------------------------------------------------------ claims

Bad == {"rejected", "panicked", "lint_error"}
Failed == {"panicked", "lint_error"}

\* the number of positional elements written
K == Len(shape.items)
\* the literal has a `default:` clause
Keyed == shape.form \in {"default", "positional"}
\* k <= N and every override index is below N
InRange ==
    /\ K <= shape.len
    /\ \A j \in 1..Len(shape.sparse) : shape.sparse[j][1] < shape.len
\* index x is named by an override
Overridden(x) == \E j \in 1..Len(shape.sparse) : shape.sparse[j][1] = x
\* the value of the last written override that names index x
LastOverride(x) ==
    LET js == {j \in 1..Len(shape.sparse) : shape.sparse[j][1] = x}
        last == CHOOSE j \in js : \A h \in js : h <= j
    IN shape.sparse[last][2]
\* the value the literal gives index x: the last override that names it,
\* else the positional element, else the default
ExpectedAt(x) ==
    IF Overridden(x) THEN LastOverride(x)
    ELSE IF x < K THEN shape.items[x + 1]
    ELSE shape.def
\* a statement of kind op of m's expansion has been executed
Executed(m, op) ==
    \E p \in 1..Len(code[m]) : p < ip[m] /\ code[m][p].op = op
\* how many writes the literal makes to index x
WriteCount(x) ==
    (IF x < K THEN 1 ELSE 0)
    + Cardinality({j \in 1..Len(shape.sparse) : shape.sparse[j][1] = x})

\* C1: for a literal with positional elements P, default d, overrides O and
\* length N (k <= N, every index < N), either macro accepts it, every
\* positional assignment has been executed before any index-keyed one is,
\* and the result has length N and holds at each index the last override
\* written for it, else the positional element, else d.
C1_AssignmentOrder ==
    \A m \in Macro :
        (Keyed /\ InRange) =>
            /\ pc[m] \notin Bad
            /\ Executed(m, "sparse") => i[m] = K
            /\ pc[m] = "done" =>
                  /\ Len(cont[m]) = shape.len
                  /\ \A x \in 0..(shape.len - 1) : cont[m][x + 1] = ExpectedAt(x)

\* An override at an index below k has replaced a different positional value.
C1_Witness ==
    \E m \in Macro :
        /\ pc[m] = "done" /\ shape.form = "positional" /\ InRange
        /\ \E j \in 1..Len(shape.sparse) :
              /\ shape.sparse[j][1] < K
              /\ shape.sparse[j][2] # shape.items[shape.sparse[j][1] + 1]
              /\ cont[m][shape.sparse[j][1] + 1] = shape.sparse[j][2]

\* C2: a literal with a default d and length N and neither positional
\* elements nor overrides (`default: d; N`, `; default: d; N`, `d; N`) is
\* accepted and yields exactly N elements, each equal to d.
C2_DefaultOnly ==
    \A m \in Macro :
        (/\ shape.form \in {"default", "positional", "repeat"}
         /\ shape.items = <<>> /\ shape.sparse = <<>>) =>
            /\ pc[m] \notin Bad
            /\ pc[m] = "done" =>
                  /\ Len(cont[m]) = shape.len
                  /\ \A x \in 1..shape.len : cont[m][x] = shape.def

\* The plain form `1; 2` has yielded its array.
C2_Witness ==
    /\ shape.form = "repeat" /\ shape.def = 1 /\ shape.len = 2
    /\ pc["arr"] = "done" /\ Len(cont["arr"]) = 2

\* C3: a fully explicit list (with or without trailing commas) is accepted,
\* its expansion holds no default fill and no indexed assignment, and the
\* result is the listed values in the listed order.
C3_ExplicitList ==
    \A m \in Macro :
        shape.form \in {"list", "list_trailing"} =>
            /\ pc[m] \notin Bad
            /\ \A p \in 1..Len(code[m]) :
                  code[m][p].op \notin {"let_repeat", "expr_repeat", "item", "sparse"}
            /\ pc[m] = "done" =>
                  /\ Len(cont[m]) = K
                  /\ \A x \in 1..K : cont[m][x] = shape.items[x]

\* A list of two different values, written with trailing commas, has yielded.
C3_Witness ==
    /\ shape.form = "list_trailing" /\ K = 2 /\ shape.items[1] # shape.items[2]
    /\ pc["arr"] = "done" /\ Len(cont["arr"]) = 2

\* C4: a literal whose overrides name an index more than once, or name the
\* index of a positional element, is accepted, and every index written more
\* than once ends holding the last override written for it.
C4_LastWriteWins ==
    \A m \in Macro :
        (Keyed /\ InRange) =>
            /\ pc[m] \notin Bad
            /\ pc[m] = "done" =>
                  \A x \in 0..(shape.len - 1) :
                      WriteCount(x) >= 2 => cont[m][x + 1] = LastOverride(x)

\* Two overrides with different values name one index, and the call is done.
C4_Witness ==
    /\ shape.form = "default" /\ Len(shape.sparse) = 2 /\ InRange
    /\ shape.sparse[1][1] = shape.sparse[2][1]
    /\ shape.sparse[1][2] # shape.sparse[2][2]
    /\ pc["vec"] = "done"
    /\ cont["vec"][shape.sparse[2][1] + 1] = shape.sparse[2][2]

\* positions 0..N-1 are not all given an explicit value
Uncovered == \E x \in 0..(shape.len - 1) : x >= K /\ ~Overridden(x)

\* C7 as claimed: every literal that leaves out the default while positions
\* 0..N-1 are not all covered is rejected at expansion time.
C7_Original ==
    \A m \in Macro :
        (shape.form = "nodefault" /\ Uncovered /\ pc[m] # "expand") =>
            pc[m] = "rejected"

\* C7 amended: such a literal is rejected at expansion time, with no
\* expansion and no value, unless it is exactly one element followed by a
\* length; that one is the repeat form, matched by arm 3, and yields N
\* copies of the element.
C7_NoDefaultRejected ==
    \A m \in Macro :
        (shape.form = "nodefault" /\ Uncovered /\ pc[m] # "expand") =>
            IF K = 1 /\ shape.sparse = <<>>
            THEN /\ arm[m] = 3
                 /\ pc[m] \notin Bad
                 /\ pc[m] = "done" =>
                       /\ Len(cont[m]) = shape.len
                       /\ \A x \in 1..shape.len : cont[m][x] = shape.items[1]
            ELSE /\ pc[m] = "rejected"
                 /\ arm[m] = 0 /\ code[m] = <<>> /\ cont[m] = <<>>

\* Two positional elements followed by the length 3 have been rejected.
C7_Witness ==
    /\ shape.form = "nodefault" /\ K = 2 /\ shape.sparse = <<>> /\ shape.len = 3
    /\ pc["arr"] = "rejected"

\* C8 as claimed: there is no runtime error path.
C8_Original == \A m \in Macro : pc[m] # "panicked"

\* C8 amended: an accepted literal with k <= N and every override index < N
\* never fails and always has a next statement until it yields; a literal
\* with a default whose k exceeds N or whose override index is >= N is
\* accepted by the expander all the same and never yields a value: its
\* out-of-bounds assignment fails after expansion.
C8_FailsOnlyOutOfRange ==
    \A m \in Macro :
        /\ (shape.form \in {"repeat", "list", "list_trailing"} \/ (Keyed /\ InRange)) =>
              /\ pc[m] \notin Bad
              /\ pc[m] = "run" => ENABLED Step(m)
        /\ (Keyed /\ ~InRange) => pc[m] \notin {"rejected", "done"}

\* vec! has panicked on an override index >= N of a literal with k <= N.
C8_Witness ==
    /\ Keyed /\ K <= shape.len
    /\ \E j \in 1..Len(shape.sparse) : shape.sparse[j][1] >= shape.len
    /\ pc["vec"] = "panicked"

\* C9: for a literal with a default d and length N the container has
\* length N from the default fill on, and at the end every index that is
\* neither below k nor named by an override holds d.
C9_DefaultElsewhere ==
    \A m \in Macro :
        shape.form \in {"default", "positional", "repeat"} =>
            /\ (pc[m] = "run" /\ ip[m] > 1) => Len(cont[m]) = shape.len
            /\ pc[m] = "done" =>
                  /\ Len(cont[m]) = shape.len
                  /\ \A x \in K..(shape.len - 1) :
                        ~Overridden(x) => cont[m][x + 1] = shape.def

\* One positional element and one override at index 0, different from the
\* default, in a literal of length 2: index 1 holds the default.
C9_Witness ==
    /\ shape.form = "positional" /\ K = 1 /\ shape.len = 2
    /\ shape.items[1] # shape.def
    /\ shape.sparse = <<<<0, shape.items[1]>>>>
    /\ pc["arr"] = "done" /\ cont["arr"][2] = shape.def

\* C10: arr! and vec! match the same arm of the same literal (or both none),
\* emit the same statements, and when both yield, the Vec has the length of
\* the array and the same element at every index.
C10_TargetsAgree ==
    /\ (pc["arr"] # "expand" /\ pc["vec"] # "expand") =>
          /\ arm["arr"] = arm["vec"]
          /\ code["arr"] = code["vec"]
          /\ (pc["arr"] = "rejected") <=> (pc["vec"] = "rejected")
    /\ (pc["arr"] = "done" /\ pc["vec"] = "done") =>
          /\ Len(cont["vec"]) = Len(cont["arr"])
          /\ \A x \in 1..Len(cont["arr"]) : cont["vec"][x] = cont["arr"][x]

\* Both macros have yielded for a literal with positional elements and an
\* override of one of them.
C10_Witness ==
    /\ pc["arr"] = "done" /\ pc["vec"] = "done" /\ arm["vec"] = 2
    /\ K = 2 /\ \E j \in 1..Len(shape.sparse) :
                   /\ shape.sparse[j][1] < K
                   /\ shape.sparse[j][2] # shape.items[shape.sparse[j][1] + 1]

\* every entry of the override block lies within the length
BlockInRange ==
    \A j \in 1..Len(shape.over) :
        IF shape.over[j].kind = "single" THEN shape.over[j].idx < shape.len
        ELSE shape.over[j].idx + Len(shape.over[j].run) <= shape.len
\* entry e writes index x
Covers(e, x) ==
    IF e.kind = "single" THEN x = e.idx
    ELSE e.idx <= x /\ x < e.idx + Len(e.run)
\* the value entry e writes at index x
EntryValue(e, x) == IF e.kind = "single" THEN e.val ELSE e.run[x - e.idx + 1]
\* the value the block literal gives index x
BlockExpectedAt(x) ==
    LET js == {j \in 1..Len(shape.over) : Covers(shape.over[j], x)}
    IN IF js = {} THEN shape.def
       ELSE EntryValue(shape.over[CHOOSE j \in js : \A h \in js : h <= j], x)

OnlyEmptyRuns ==
    \A j \in 1..Len(shape.over) :
        shape.over[j].kind \in {"run", "run_rt"} /\ shape.over[j].run = <<>>

=============================================================================
